---- MODULE Spec2Model ----
(***************************************************************************)
(* Model of disk-thrash (src/src/main.rs): a coordinator (main) spawns     *)
(* worker threads that loop over disk_thrash() cycles until STOP_SIGNAL is *)
(* set by the Ctrl-C handler; main then joins the workers, drains          *)
(* CREATED_FILES and removes what is left.                                 *)
(***************************************************************************)
EXTENDS Integers, FiniteSets, Sequences, TLC

\* ---- bounds of the model ----
\* most threads the operating system lets the process start
MaxThreads == 2
\* number of distinct file names Uuid::new_v4() hands out in a run
MaxFiles == 2

\* usize arithmetic is modelled modulo this value (TLC integers are 32 bit)
UsizeModulus == 1073741824
\* bytes per MB as multiplied at main.rs:89 (1024 * 1024)
BytesPerMB == 1048576

Threads == 1..MaxThreads
Paths == 1..MaxFiles
\* values of num_cpus::get() that are tried
CpuCounts == 1..(MaxThreads + 2)
\* values of --buffer-size that are tried
BufferSizes == {0, 1}
\* a path with no file on disk
Absent == -1
\* holders of the Mutex: nobody, the main thread, or a worker of Threads
Unlocked == -1
MainThread == 0

VARIABLES
    cpus,            \* num_cpus::get()
    buffer_size,     \* args.buffer_size
    STOP_SIGNAL,     \* the AtomicBool
    CREATED_FILES,   \* the HashSet behind the Mutex
    lock,            \* the thread that holds the Mutex's guard, or Unlocked
    disk,            \* path -> length of the file, or Absent
    mainPc,          \* position of main()
    num_threads,     \* main's num_threads
    handles,         \* number of JoinHandles pushed
    joined,          \* number of handles already joined
    remaining,       \* main's `remaining` after the drain
    cleanupFailed,   \* the final cleanup failed to remove a file that exists
    cleanupRemoved,  \* the final cleanup removed a file from disk
    pc,              \* position of each worker thread
    filename,        \* disk_thrash's filename of each worker (0 = none)
    result,          \* what the last disk_thrash call returned to the loop
    mismatch,        \* the size diagnostic of line 61 was printed this cycle
    nextUuid,        \* next unused file name
    cyclesAfterStop, \* cycles a worker finished while STOP_SIGNAL was true
    ioFailed         \* some disk_thrash call of the run returned an error

vars == <<cpus, buffer_size, STOP_SIGNAL, CREATED_FILES, lock, disk,
          mainPc, num_threads, handles, joined, remaining, cleanupFailed,
          cleanupRemoved, pc, filename, result, mismatch, nextUuid,
          cyclesAfterStop, ioFailed>>

config == <<cpus, buffer_size>>
mainVars == <<mainPc, num_threads, handles, joined, remaining, cleanupFailed,
              cleanupRemoved>>
workerVars == <<pc, filename, result, mismatch, nextUuid, cyclesAfterStop,
                ioFailed>>

\* buffer.len(): args.buffer_size * 1024 * 1024 in usize
BufLen == (buffer_size * BytesPerMB) % UsizeModulus

\* the process is running: main has neither returned nor panicked
ProcessAlive == mainPc \notin {"done", "panicked"}

Max(a, b) == IF a >= b THEN a ELSE b

Init ==
    /\ cpus \in CpuCounts
    /\ buffer_size \in BufferSizes
    /\ STOP_SIGNAL = FALSE
    /\ CREATED_FILES = {}
    /\ lock = Unlocked
    /\ disk = [p \in Paths |-> Absent]
    /\ mainPc = "count"
    /\ num_threads = 0
    /\ handles = 0
    /\ joined = 0
    /\ remaining = {}
    /\ cleanupFailed = FALSE
    /\ cleanupRemoved = FALSE
    /\ pc = [w \in Threads |-> "unspawned"]
    /\ filename = [w \in Threads |-> 0]
    /\ result = [w \in Threads |-> "none"]
    /\ mismatch = [w \in Threads |-> FALSE]
    /\ nextUuid = 1
    /\ cyclesAfterStop = [w \in Threads |-> 0]
    /\ ioFailed = FALSE

\* a handler that flips the flag instead of setting it
CtrlC_TogglesFlag ==
    /\ ProcessAlive
    /\ STOP_SIGNAL' = ~STOP_SIGNAL
    /\ UNCHANGED <<config, CREATED_FILES, lock, disk, mainVars, workerVars>>

\* ---- the Ctrl-C handler ----
CtrlC ==
    /\ ProcessAlive
    /\ STOP_SIGNAL' = TRUE
    /\ UNCHANGED <<config, CREATED_FILES, lock, disk, mainVars, workerVars>>

\* ---- a worker thread: the closure of main.rs:106-114 ----

\* disk_thrash returns r to the loop, which goes back to its condition
EndCycle(w, r) ==
    /\ pc' = [pc EXCEPT ![w] = "check"]
    /\ result' = [result EXCEPT ![w] = r]
    /\ filename' = [filename EXCEPT ![w] = 0]
    /\ cyclesAfterStop' = [cyclesAfterStop EXCEPT
                             ![w] = IF STOP_SIGNAL THEN @ + 1 ELSE @]
    /\ ioFailed' = (ioFailed \/ r # "ok")

\* a loop condition that starts a cycle whatever the flag says
WorkerCheck_IgnoresStop(w) ==
    /\ ProcessAlive
    /\ pc[w] = "check"
    /\ nextUuid <= MaxFiles
    /\ pc' = [pc EXCEPT ![w] = "insert"]
    /\ filename' = [filename EXCEPT ![w] = nextUuid]
    /\ nextUuid' = nextUuid + 1
    /\ result' = [result EXCEPT ![w] = "none"]
    /\ mismatch' = [mismatch EXCEPT ![w] = FALSE]
    /\ UNCHANGED <<config, STOP_SIGNAL, CREATED_FILES, lock, disk, mainVars,
                   cyclesAfterStop, ioFailed>>

\* while !STOP_SIGNAL.load(SeqCst): leave the loop, or enter disk_thrash and
\* pick the file name (line 34)
WorkerCheck(w) ==
    /\ ProcessAlive
    /\ pc[w] = "check"
    /\ IF STOP_SIGNAL
         THEN /\ pc' = [pc EXCEPT ![w] = "stopped"]
              /\ UNCHANGED <<filename, nextUuid>>
         ELSE /\ nextUuid <= MaxFiles
              /\ pc' = [pc EXCEPT ![w] = "insert"]
              /\ filename' = [filename EXCEPT ![w] = nextUuid]
              /\ nextUuid' = nextUuid + 1
    /\ result' = [result EXCEPT ![w] = "none"]
    /\ mismatch' = [mismatch EXCEPT ![w] = FALSE]
    /\ UNCHANGED <<config, STOP_SIGNAL, CREATED_FILES, lock, disk, mainVars,
                   cyclesAfterStop, ioFailed>>

\* a lock() that returns although another thread holds the guard
WorkerLock_NoWait(w) ==
    /\ ProcessAlive
    /\ pc[w] \in {"insert", "untrack"}
    /\ lock' = w
    /\ pc' = [pc EXCEPT ![w] = IF @ = "insert" THEN "inserting"
                                               ELSE "untracking"]
    /\ UNCHANGED <<config, STOP_SIGNAL, CREATED_FILES, disk, mainVars,
                   filename, result, mismatch, nextUuid, cyclesAfterStop,
                   ioFailed>>

\* CREATED_FILES.lock().unwrap() of lines 37 and 75: blocks until the Mutex
\* is free (no thread panics under the guard, so it is never poisoned)
WorkerLock(w) ==
    /\ ProcessAlive
    /\ pc[w] \in {"insert", "untrack"}
    /\ lock = Unlocked
    /\ lock' = w
    /\ pc' = [pc EXCEPT ![w] = IF @ = "insert" THEN "inserting"
                                               ELSE "untracking"]
    /\ UNCHANGED <<config, STOP_SIGNAL, CREATED_FILES, disk, mainVars,
                   filename, result, mismatch, nextUuid, cyclesAfterStop,
                   ioFailed>>

\* an insert that is forgotten
WorkerInsert_Skipped(w) ==
    /\ ProcessAlive
    /\ pc[w] = "inserting"
    /\ lock' = Unlocked
    /\ pc' = [pc EXCEPT ![w] = "create"]
    /\ UNCHANGED <<config, STOP_SIGNAL, CREATED_FILES, disk, mainVars,
                   filename, result, mismatch, nextUuid, cyclesAfterStop,
                   ioFailed>>

\* .insert(filename.clone()) under the guard, which the end of the block
\* drops
WorkerInsert(w) ==
    /\ ProcessAlive
    /\ pc[w] = "inserting"
    /\ CREATED_FILES' = CREATED_FILES \cup {filename[w]}
    /\ lock' = Unlocked
    /\ pc' = [pc EXCEPT ![w] = "create"]
    /\ UNCHANGED <<config, STOP_SIGNAL, disk, mainVars,
                   filename, result, mismatch, nextUuid, cyclesAfterStop,
                   ioFailed>>

\* a create that goes on to write an empty buffer
WorkerCreate_NoEmptyCheck(w) ==
    /\ ProcessAlive
    /\ pc[w] = "create"
    /\ \/ /\ disk' = [disk EXCEPT ![filename[w]] = 0]
          /\ pc' = [pc EXCEPT ![w] = "write"]
          /\ UNCHANGED <<filename, result, cyclesAfterStop, ioFailed>>
       \/ /\ EndCycle(w, "create")
          /\ UNCHANGED disk
    /\ UNCHANGED <<config, STOP_SIGNAL, CREATED_FILES, lock, mainVars, mismatch,
                   nextUuid>>

\* File::create(&filename)? followed by the buffer.is_empty() test
WorkerCreate(w) ==
    /\ ProcessAlive
    /\ pc[w] = "create"
    /\ \/ /\ disk' = [disk EXCEPT ![filename[w]] = 0]
          /\ IF BufLen = 0
               THEN EndCycle(w, "empty")
               ELSE /\ pc' = [pc EXCEPT ![w] = "write"]
                    /\ UNCHANGED <<filename, result, cyclesAfterStop, ioFailed>>
       \/ /\ EndCycle(w, "create")
          /\ UNCHANGED disk
    /\ UNCHANGED <<config, STOP_SIGNAL, CREATED_FILES, lock, mainVars, mismatch,
                   nextUuid>>

\* length a file can have after a write_all that failed part way
PartialLens == {BufLen \div 2}

\* a write whose error ends the thread
WorkerWrite_ErrorExits(w) ==
    /\ ProcessAlive
    /\ pc[w] = "write"
    /\ \/ /\ disk' = [disk EXCEPT ![filename[w]] = BufLen]
          /\ pc' = [pc EXCEPT ![w] = "sync"]
          /\ UNCHANGED <<filename, result, cyclesAfterStop, ioFailed>>
       \/ /\ \E n \in PartialLens : disk' = [disk EXCEPT ![filename[w]] = n]
          /\ pc' = [pc EXCEPT ![w] = "stopped"]
          /\ UNCHANGED <<filename, result, cyclesAfterStop, ioFailed>>
    /\ UNCHANGED <<config, STOP_SIGNAL, CREATED_FILES, lock, mainVars, mismatch,
                   nextUuid>>

\* file.write_all(buffer)?
WorkerWrite(w) ==
    /\ ProcessAlive
    /\ pc[w] = "write"
    /\ \/ /\ disk' = [disk EXCEPT ![filename[w]] = BufLen]
          /\ pc' = [pc EXCEPT ![w] = "sync"]
          /\ UNCHANGED <<filename, result, cyclesAfterStop, ioFailed>>
       \/ /\ \E n \in PartialLens : disk' = [disk EXCEPT ![filename[w]] = n]
          /\ EndCycle(w, "write")
    /\ UNCHANGED <<config, STOP_SIGNAL, CREATED_FILES, lock, mainVars, mismatch,
                   nextUuid>>

\* file.sync_all()?
WorkerSync(w) ==
    /\ ProcessAlive
    /\ pc[w] = "sync"
    /\ \/ /\ pc' = [pc EXCEPT ![w] = "stat"]
          /\ UNCHANGED <<filename, result, cyclesAfterStop, ioFailed>>
       \/ EndCycle(w, "sync")
    /\ UNCHANGED <<config, STOP_SIGNAL, CREATED_FILES, lock, disk, mainVars,
                   mismatch, nextUuid>>

\* lengths std::fs::metadata can find: the length written, or a shorter one
\* when the file system kept less than it acknowledged
StatLens(w) == {disk[filename[w]], BufLen \div 2}

\* a size comparison whose mismatch is returned as an error
WorkerStat_MismatchAborts(w) ==
    /\ ProcessAlive
    /\ pc[w] = "stat"
    /\ \/ \E n \in StatLens(w) :
            /\ disk' = [disk EXCEPT ![filename[w]] = n]
            /\ mismatch' = [mismatch EXCEPT ![w] = (n # BufLen)]
            /\ IF n # BufLen
                 THEN EndCycle(w, "stat")
                 ELSE /\ pc' = [pc EXCEPT ![w] = "sleep"]
                      /\ UNCHANGED <<filename, result, cyclesAfterStop,
                                     ioFailed>>
       \/ /\ EndCycle(w, "stat")
          /\ UNCHANGED <<disk, mismatch>>
    /\ UNCHANGED <<config, STOP_SIGNAL, CREATED_FILES, lock, mainVars,
                   nextUuid>>

\* std::fs::metadata(&filename)? and the comparison with buffer.len()
WorkerStat(w) ==
    /\ ProcessAlive
    /\ pc[w] = "stat"
    /\ \/ \E n \in StatLens(w) :
            /\ disk' = [disk EXCEPT ![filename[w]] = n]
            /\ mismatch' = [mismatch EXCEPT ![w] = (n # BufLen)]
            /\ pc' = [pc EXCEPT ![w] = "sleep"]
            /\ UNCHANGED <<filename, result, cyclesAfterStop, ioFailed>>
       \/ /\ EndCycle(w, "stat")
          /\ UNCHANGED <<disk, mismatch>>
    /\ UNCHANGED <<config, STOP_SIGNAL, CREATED_FILES, lock, mainVars,
                   nextUuid>>

\* a settle delay that gives the cycle up when the flag is set
WorkerSleep_Interruptible(w) ==
    /\ ProcessAlive
    /\ pc[w] = "sleep"
    /\ IF STOP_SIGNAL
         THEN EndCycle(w, "ok")
         ELSE /\ pc' = [pc EXCEPT ![w] = "remove"]
              /\ UNCHANGED <<filename, result, cyclesAfterStop, ioFailed>>
    /\ UNCHANGED <<config, STOP_SIGNAL, CREATED_FILES, lock, disk, mainVars,
                   mismatch, nextUuid>>

\* thread::sleep(1 s)
WorkerSleep(w) ==
    /\ ProcessAlive
    /\ pc[w] = "sleep"
    /\ pc' = [pc EXCEPT ![w] = "remove"]
    /\ UNCHANGED <<config, STOP_SIGNAL, CREATED_FILES, lock, disk, mainVars,
                   filename, result, mismatch, nextUuid, cyclesAfterStop,
                   ioFailed>>

\* a remove whose failure still falls through to the untracking
WorkerRemove_UntracksOnError(w) ==
    /\ ProcessAlive
    /\ pc[w] = "remove"
    /\ \/ disk' = [disk EXCEPT ![filename[w]] = Absent]
       \/ UNCHANGED disk
    /\ pc' = [pc EXCEPT ![w] = "untrack"]
    /\ UNCHANGED <<config, STOP_SIGNAL, CREATED_FILES, lock, mainVars,
                   filename, result, mismatch, nextUuid, cyclesAfterStop,
                   ioFailed>>

\* std::fs::remove_file(&filename)?
WorkerRemove(w) ==
    /\ ProcessAlive
    /\ pc[w] = "remove"
    /\ \/ /\ disk' = [disk EXCEPT ![filename[w]] = Absent]
          /\ pc' = [pc EXCEPT ![w] = "untrack"]
          /\ UNCHANGED <<filename, result, cyclesAfterStop, ioFailed>>
       \/ /\ EndCycle(w, "remove")
          /\ UNCHANGED disk
    /\ UNCHANGED <<config, STOP_SIGNAL, CREATED_FILES, lock, mainVars, mismatch,
                   nextUuid>>

\* a cycle end that forgets the set removal
WorkerUntrack_Forgets(w) ==
    /\ ProcessAlive
    /\ pc[w] = "untracking"
    /\ lock' = Unlocked
    /\ EndCycle(w, "ok")
    /\ UNCHANGED <<config, STOP_SIGNAL, CREATED_FILES, disk, mainVars,
                   mismatch, nextUuid>>

\* .remove(&filename) under the guard, which the end of the block drops;
\* Ok(())
WorkerUntrack(w) ==
    /\ ProcessAlive
    /\ pc[w] = "untracking"
    /\ CREATED_FILES' = CREATED_FILES \ {filename[w]}
    /\ lock' = Unlocked
    /\ EndCycle(w, "ok")
    /\ UNCHANGED <<config, STOP_SIGNAL, disk, mainVars, mismatch, nextUuid>>

\* ---- the coordinator: main(), from line 96 on ----

\* num_cpus::get() - 2 in usize: on an underflow a build with overflow checks
\* panics and a build without them wraps around
MainCount ==
    /\ mainPc = "count"
    /\ \/ /\ cpus < 2
          /\ mainPc' = "panicked"
          /\ UNCHANGED num_threads
       \/ /\ num_threads' = (cpus - 2) % UsizeModulus
          /\ mainPc' = "spawn"
    /\ UNCHANGED <<config, STOP_SIGNAL, CREATED_FILES, lock, disk, handles,
                   joined, remaining, cleanupFailed, cleanupRemoved,
                   workerVars>>

\* one iteration of for id in 0..num_threads: thread::spawn panics when the
\* operating system refuses another thread
MainSpawn ==
    /\ mainPc = "spawn"
    /\ handles < num_threads
    /\ IF handles < MaxThreads
         THEN /\ handles' = handles + 1
              /\ pc' = [pc EXCEPT ![handles + 1] = "check"]
              /\ UNCHANGED mainPc
         ELSE /\ mainPc' = "panicked"
              /\ UNCHANGED <<handles, pc>>
    /\ UNCHANGED <<config, STOP_SIGNAL, CREATED_FILES, lock, disk, num_threads,
                   joined, remaining, cleanupFailed, cleanupRemoved, filename,
                   result,
                   mismatch, nextUuid, cyclesAfterStop, ioFailed>>

\* the range 0..num_threads is exhausted
MainSpawnDone ==
    /\ mainPc = "spawn"
    /\ handles = num_threads
    /\ mainPc' = "join"
    /\ UNCHANGED <<config, STOP_SIGNAL, CREATED_FILES, lock, disk, num_threads,
                   handles, joined, remaining, cleanupFailed, cleanupRemoved,
                   workerVars>>

\* a join that returns although the thread is still running
MainJoin_NoWait ==
    /\ mainPc = "join"
    /\ joined < handles
    /\ joined' = joined + 1
    /\ UNCHANGED <<config, STOP_SIGNAL, CREATED_FILES, lock, disk, mainPc,
                   num_threads, handles, remaining, cleanupFailed,
                   cleanupRemoved, workerVars>>

\* h.join().unwrap() for the next handle: returns once that thread has ended
MainJoin ==
    /\ mainPc = "join"
    /\ joined < handles
    /\ pc[joined + 1] = "stopped"
    /\ joined' = joined + 1
    /\ UNCHANGED <<config, STOP_SIGNAL, CREATED_FILES, lock, disk, mainPc,
                   num_threads, handles, remaining, cleanupFailed,
                   cleanupRemoved, workerVars>>

\* all handles are joined: "Cleaning up remaining files..."
MainJoinDone ==
    /\ mainPc = "join"
    /\ joined = handles
    /\ mainPc' = "drain"
    /\ UNCHANGED <<config, STOP_SIGNAL, CREATED_FILES, lock, disk, num_threads,
                   handles, joined, remaining, cleanupFailed, cleanupRemoved,
                   workerVars>>

\* CREATED_FILES.lock().unwrap() of line 123
MainLock ==
    /\ mainPc = "drain"
    /\ lock = Unlocked
    /\ lock' = MainThread
    /\ mainPc' = "draining"
    /\ UNCHANGED <<config, STOP_SIGNAL, CREATED_FILES, disk, num_threads,
                   handles, joined, remaining, cleanupFailed, cleanupRemoved,
                   workerVars>>

\* a collect that copies the set instead of draining it
MainDrain_KeepsEntries ==
    /\ mainPc = "draining"
    /\ remaining' = CREATED_FILES
    /\ lock' = Unlocked
    /\ mainPc' = "cleanup"
    /\ UNCHANGED <<config, STOP_SIGNAL, CREATED_FILES, disk, num_threads,
                   handles, joined, cleanupFailed, cleanupRemoved, workerVars>>

\* .drain().collect() under the guard, dropped at the end of the statement
MainDrain ==
    /\ mainPc = "draining"
    /\ remaining' = CREATED_FILES
    /\ CREATED_FILES' = {}
    /\ lock' = Unlocked
    /\ mainPc' = "cleanup"
    /\ UNCHANGED <<config, STOP_SIGNAL, disk, num_threads, handles, joined,
                   cleanupFailed, cleanupRemoved, workerVars>>

\* let _ = std::fs::remove_file(path) for one path of remaining
MainCleanup ==
    /\ mainPc = "cleanup"
    /\ \E p \in remaining :
         /\ remaining' = remaining \ {p}
         /\ IF disk[p] = Absent
              THEN \* Err(NotFound), dropped
                   UNCHANGED <<disk, cleanupFailed, cleanupRemoved>>
              ELSE \/ /\ disk' = [disk EXCEPT ![p] = Absent]
                      /\ cleanupRemoved' = TRUE
                      /\ UNCHANGED cleanupFailed
                   \/ /\ cleanupFailed' = TRUE
                      /\ UNCHANGED <<disk, cleanupRemoved>>
    /\ UNCHANGED <<config, STOP_SIGNAL, CREATED_FILES, lock, mainPc,
                   num_threads, handles, joined, workerVars>>

\* remaining is exhausted: "Done."
MainDone ==
    /\ mainPc = "cleanup"
    /\ remaining = {}
    /\ mainPc' = "done"
    /\ UNCHANGED <<config, STOP_SIGNAL, CREATED_FILES, lock, disk, num_threads,
                   handles, joined, remaining, cleanupFailed, cleanupRemoved,
                   workerVars>>

Worker(w) ==
    \/ WorkerCheck(w)
    \/ WorkerLock(w)
    \/ WorkerInsert(w)
    \/ WorkerCreate(w)
    \/ WorkerWrite(w)
    \/ WorkerSync(w)
    \/ WorkerStat(w)
    \/ WorkerSleep(w)
    \/ WorkerRemove(w)
    \/ WorkerUntrack(w)

Main ==
    \/ MainCount
    \/ MainSpawn
    \/ MainSpawnDone
    \/ MainJoin
    \/ MainJoinDone
    \/ MainLock
    \/ MainDrain
    \/ MainCleanup
    \/ MainDone

Next ==
    \/ CtrlC
    \/ Main
    \/ \E w \in Threads : Worker(w)

Spec == Init /\ [][Next]_vars

\* every thread that can run does run, and every blocking call returns
FairSpec ==
    /\ Spec
    /\ WF_vars(Main)
    /\ \A w \in Threads : WF_vars(Worker(w))

TypeOK ==
    /\ STOP_SIGNAL \in BOOLEAN
    /\ CREATED_FILES \subseteq Paths
    /\ lock \in Threads \cup {MainThread, Unlocked}
    /\ remaining \subseteq Paths
    /\ handles \in 0..MaxThreads
    /\ joined \in 0..handles
    /\ nextUuid \in 1..(MaxFiles + 1)

\* ---- vocabulary of the properties ----

\* paths whose file is on disk
OnDisk == {p \in Paths : disk[p] # Absent}

\* positions inside a disk_thrash call
InCycle == {"insert", "inserting", "create", "write", "sync", "stat",
            "sleep", "remove", "untrack", "untracking"}

\* the Err values disk_thrash returns
Errors == {"create", "empty", "write", "sync", "stat", "remove"}

\* positions of main after the drain of line 123
AfterDrain == {"cleanup", "done"}

\* ---- properties ----

\* C1: counted from the moment STOP_SIGNAL is set, a worker finishes at most
\* one cycle (the one in flight), and once it has finished that cycle it is
\* at its loop condition or has left the loop: it is in no further cycle.
C1_AtMostOneCycleAfterStop ==
    \A w \in Threads :
        /\ cyclesAfterStop[w] <= 1
        /\ cyclesAfterStop[w] = 1 => pc[w] \in {"check", "stopped"}

\* a worker finished its in-flight cycle after the flag was set and stopped
C1_Witness ==
    \E w \in Threads : cyclesAfterStop[w] = 1 /\ pc[w] = "stopped"

\* C2: when all workers are joined and the drain has not run yet,
\* CREATED_FILES is exactly the set of paths whose file is on disk.
C2_InventoryExactAtJoin ==
    mainPc = "drain" => CREATED_FILES = OnDisk

\* C3: when main has reached "Done." and no removal of the final cleanup
\* failed, no temporary file is left on disk.
C3_NoFilesAfterShutdown ==
    (mainPc = "done" /\ ~cleanupFailed) => OnDisk = {}

\* an interrupt-driven shutdown whose final cleanup removed a file that an
\* aborted cycle had left behind
C3_Witness ==
    /\ mainPc = "done"
    /\ STOP_SIGNAL
    /\ ~cleanupFailed
    /\ cleanupRemoved

\* C4: a path enters CREATED_FILES only when its file has been created and
\* nothing has been written to it yet.
C4_TrackOnlyAfterCreate ==
    [][\A p \in Paths :
          (p \notin CREATED_FILES /\ p \in CREATED_FILES') => disk[p] = 0]_vars

\* C5 as stated: in every reachable state every file on disk is tracked.
C5_OnDiskAlwaysTracked ==
    OnDisk \subseteq CREATED_FILES

\* C5 as amended: in every state up to main's drain every file on disk is in
\* CREATED_FILES.
C5_OnDiskTrackedUntilDrain ==
    mainPc \notin AfterDrain => OnDisk \subseteq CREATED_FILES

\* a file abandoned by a failed cycle is on disk, tracked, and owned by no
\* running cycle
C5_Witness ==
    /\ mainPc \notin AfterDrain
    /\ \E p \in OnDisk :
         /\ p \in CREATED_FILES
         /\ \A w \in Threads : filename[w] # p

\* C6 as stated: with an empty buffer no cycle changes what is on disk and
\* every cycle ends with the empty-buffer error.
C6_EmptyBufferLeavesDiskAlone ==
    [][(BufLen = 0 /\ mainPc # "cleanup") =>
          /\ disk' = disk
          /\ \A w \in Threads : result'[w] \in {"none", "empty"}]_vars

\* C6 as amended: with an empty buffer no worker gets to write_all or beyond,
\* every file on disk is empty, and a cycle ends with the empty-buffer error
\* or, when the creation failed, with the creation error.
C6_EmptyBufferNeverWrites ==
    BufLen = 0 =>
        /\ \A w \in Threads :
             /\ pc[w] \notin {"write", "sync", "stat", "sleep", "remove",
                              "untrack", "untracking"}
             /\ result[w] \in {"none", "empty", "create"}
        /\ \A p \in Paths : disk[p] \in {Absent, 0}

\* a cycle ended with the empty-buffer error and left its empty file
C6_Witness ==
    /\ BufLen = 0
    /\ \E w \in Threads : result[w] = "empty"
    /\ \E p \in Paths : disk[p] = 0

\* C7: once computed, the worker count is max(1, cpus - 2), and computing it
\* does not abort main.
C7_WorkerCount ==
    /\ mainPc # "panicked"
    /\ mainPc # "count" => num_threads = Max(1, cpus - 2)

\* C8: main has not drained CREATED_FILES, nor returned, while STOP_SIGNAL
\* is false.
C8_NoDrainBeforeStop ==
    mainPc \in AfterDrain => STOP_SIGNAL

\* C9: a step in which a worker's disk_thrash returns an error puts that
\* worker at its loop condition and changes neither another worker's
\* position, nor main's state, nor STOP_SIGNAL; and a worker enters
\* "stopped" only from the loop condition with STOP_SIGNAL true.
C9_FailureStaysInLoop ==
    [][\A w \in Threads :
          /\ (pc[w] \in InCycle /\ result'[w] \in Errors) =>
                /\ pc'[w] = "check"
                /\ \A v \in Threads \ {w} : pc'[v] = pc[v]
                /\ mainVars' = mainVars
                /\ STOP_SIGNAL' = STOP_SIGNAL
          /\ (pc[w] # "stopped" /\ pc'[w] = "stopped") =>
                (pc[w] = "check" /\ STOP_SIGNAL)
          /\ pc[w] \in InCycle => pc'[w] \in InCycle \cup {"check"}]_vars

\* a worker is back at its loop condition after a failed cycle, the flag
\* still false
C9_Witness ==
    \E w \in Threads :
        pc[w] = "check" /\ result[w] \in Errors /\ ~STOP_SIGNAL

\* C10: once STOP_SIGNAL is set, main eventually reaches "Done.".
C10_ShutdownCompletes ==
    STOP_SIGNAL ~> (mainPc = "done")


\* C11: a path leaves CREATED_FILES in a worker's step only when its file is
\* gone from disk; the step in which remove_file fails leaves the path in
\* CREATED_FILES; and main's drain hands over everything CREATED_FILES holds.
C11_UntrackOnlyAfterDelete ==
    [][/\ \A p \in Paths :
            (p \in CREATED_FILES /\ p \notin CREATED_FILES'
               /\ mainPc # "draining")
                => (disk[p] = Absent /\ disk'[p] = Absent)
       /\ \A w \in Threads :
            (pc[w] = "remove" /\ result'[w] = "remove")
                => /\ filename[w] \in CREATED_FILES'
                   /\ disk'[filename[w]] # Absent
       /\ (mainPc = "draining" /\ mainPc' # "draining")
                => CREATED_FILES \subseteq remaining']_vars

\* the only file of the run failed to be removed: it is on disk and tracked
C11_Witness ==
    /\ nextUuid = 2
    /\ \E w \in Threads : pc[w] = "check" /\ result[w] = "remove"
    /\ 1 \in CREATED_FILES
    /\ disk[1] # Absent

\* C12: STOP_SIGNAL starts false, no step takes it from true to false, and a
\* handler run with the flag already true changes nothing.
C12_StopMonotonic ==
    /\ ~STOP_SIGNAL
    /\ [][/\ STOP_SIGNAL => STOP_SIGNAL'
          /\ (STOP_SIGNAL /\ CtrlC) => UNCHANGED vars]_vars

\* the flag is true while the process runs, so a second interrupt can arrive
C12_Witness ==
    /\ STOP_SIGNAL
    /\ ProcessAlive
    /\ \E w \in Threads : pc[w] \in InCycle

\* C13: the drain step hands main every tracked path and leaves
\* CREATED_FILES empty, and it stays empty afterwards, so that a second
\* drain would return nothing.
C13_DrainTakesAll ==
    /\ [][(mainPc = "draining" /\ mainPc' # "draining")
             => (remaining' = CREATED_FILES /\ CREATED_FILES' = {})]_vars
    /\ [](mainPc \in AfterDrain => CREATED_FILES = {})

\* the drain has just returned a non-empty set
C13_Witness ==
    /\ mainPc = "cleanup"
    /\ Cardinality(remaining) = MaxFiles
    /\ CREATED_FILES = {}


\* C14: main leaves "drain" only with every spawned thread ended and every
\* handle joined, and never comes back to it; a worker untracks only a path
\* that is tracked; and from the drain on CREATED_FILES is empty and stays
\* empty.
C14_DrainOnceAfterJoin ==
    [][/\ (mainPc = "drain" /\ mainPc' # "drain") => mainPc' = "draining"
       /\ (mainPc = "draining" /\ mainPc' # "draining") =>
             /\ mainPc' = "cleanup"
             /\ joined = handles
             /\ handles = num_threads
             /\ \A w \in Threads : pc[w] \in {"unspawned", "stopped"}
       /\ (mainPc # "drain" /\ mainPc' = "drain") =>
             \A w \in Threads : pc[w] \in {"unspawned", "stopped"}
       /\ mainPc \in AfterDrain =>
             /\ mainPc' \in AfterDrain
             /\ CREATED_FILES = {}
             /\ CREATED_FILES' = {}
             /\ pc' = pc
       /\ \A w \in Threads :
             pc[w] = "untrack" => filename[w] \in CREATED_FILES]_vars

\* two workers ran cycles, were joined, and main drained and finished
C14_Witness ==
    /\ mainPc = "done"
    /\ handles = 2
    /\ nextUuid > 2
    /\ CREATED_FILES = {}

\* the positions a step of disk_thrash can lead to
CycleSuccessors(q) ==
    CASE q = "insert" -> {"inserting"}
      [] q = "inserting" -> {"create"}
      [] q = "create" -> {"write", "check"}
      [] q = "write" -> {"sync", "check"}
      [] q = "sync" -> {"stat", "check"}
      [] q = "stat" -> {"sleep", "check"}
      [] q = "sleep" -> {"remove"}
      [] q = "remove" -> {"untrack", "check"}
      [] q = "untrack" -> {"untracking"}
      [] q = "untracking" -> {"check"}
      [] OTHER -> {}

\* C15: inside a cycle a worker moves only to the next step of the cycle or,
\* with an error of that step, back to the loop condition, whatever the flag
\* says; a worker that reads the flag true leaves the loop in a step that
\* touches neither CREATED_FILES nor the disk, and a worker that has left
\* the loop stays out of it.
C15_StopOnlyAtCycleBoundary ==
    [][\A w \in Threads :
          /\ (pc[w] \in InCycle /\ pc'[w] # pc[w]) =>
                /\ pc'[w] \in CycleSuccessors(pc[w])
                /\ (pc'[w] = "check" /\ pc[w] # "untracking") =>
                       result'[w] \in Errors
                /\ (pc'[w] = "check" /\ pc[w] = "untracking") =>
                       result'[w] = "ok"
          /\ (pc[w] = "check" /\ STOP_SIGNAL /\ pc'[w] # pc[w]) =>
                /\ pc'[w] = "stopped"
                /\ CREATED_FILES' = CREATED_FILES
                /\ disk' = disk
          /\ pc[w] = "stopped" =>
                (pc'[w] = "stopped" /\ filename'[w] = 0)]_vars

\* with the flag set, one worker is finishing its cycle while another one,
\* whose first check read true, has stopped without ever naming a file
C15_Witness ==
    /\ STOP_SIGNAL
    /\ nextUuid = 2
    /\ \E w, v \in Threads : pc[w] = "untrack" /\ pc[v] = "stopped"

\* C16: the step in which File::create fails leaves the path out of
\* CREATED_FILES and takes the worker to the settle delay.
C16_CreateFailureGoesToDelay ==
    [][\A w \in Threads :
          (pc[w] = "create" /\ result'[w] = "create") =>
              /\ filename[w] \notin CREATED_FILES'
              /\ pc'[w] = "sleep"]_vars

\* C17: a stat step that finds a different length goes on to the settle
\* delay without an error; from there the cycle goes to the removal, and an
\* untrack step takes the path out of CREATED_FILES and returns Ok, with or
\* without the diagnostic.
C17_MismatchDoesNotAbort ==
    [][\A w \in Threads :
          /\ (pc[w] = "stat" /\ mismatch'[w]) =>
                (pc'[w] = "sleep" /\ result'[w] = "none")
          /\ (pc[w] = "sleep" /\ pc'[w] # pc[w]) => pc'[w] = "remove"
          /\ (pc[w] = "untracking" /\ pc'[w] # pc[w]) =>
                /\ filename[w] \notin CREATED_FILES'
                /\ result'[w] = "ok"
                /\ mismatch'[w] = mismatch[w]]_vars

\* a cycle that printed the size diagnostic removed its file, untracked it
\* and returned Ok
C17_Witness ==
    \E w \in Threads :
        /\ pc[w] = "check"
        /\ result[w] = "ok"
        /\ mismatch[w]
        /\ nextUuid = 2
        /\ CREATED_FILES = {}
        /\ disk[1] = Absent


\* positions of disk_thrash between its set insertion and its set removal
Tracking == {"create", "write", "sync", "stat", "sleep", "remove", "untrack",
             "untracking"}

\* C19: with a non-empty buffer and no failed step so far, CREATED_FILES
\* holds only the paths of cycles now between their insertion and their
\* removal, one per worker at most, hence no more than there are workers; it
\* is empty when all workers are joined, and the drain returns nothing.
C19_OnePathPerWorker ==
    (BufLen > 0 /\ ~ioFailed) =>
        /\ CREATED_FILES \subseteq
               {filename[w] : w \in {v \in Threads : pc[v] \in Tracking}}
        /\ Cardinality(CREATED_FILES) <= handles
        /\ mainPc \in {"drain", "draining"} => CREATED_FILES = {}
        /\ mainPc \in AfterDrain => remaining = {}

\* cycles ran without a failure, the workers were joined and the drain
\* returned nothing
C19_Witness ==
    /\ BufLen > 0
    /\ ~ioFailed
    /\ nextUuid > 2
    /\ handles = 2
    /\ mainPc = "cleanup"
    /\ remaining = {}


\* threads that are inside an operation on CREATED_FILES
InInventoryOp ==
    {w \in Threads : pc[w] \in {"inserting", "untracking"}}
        \cup (IF mainPc = "draining" THEN {MainThread} ELSE {})

\* C18: at most one thread is inside an operation on CREATED_FILES, and it
\* is the holder of the lock; and a step of a worker changes CREATED_FILES
\* by the path of that worker only, which enters with its insert and leaves
\* with its remove: no other path is dropped or brought back.
C18_InventoryUnderLock ==
    /\ [](/\ Cardinality(InInventoryOp) <= 1
          /\ InInventoryOp = (IF lock = Unlocked THEN {} ELSE {lock}))
    /\ [][\A p \in Paths :
             /\ (p \notin CREATED_FILES /\ p \in CREATED_FILES') =>
                   \E w \in Threads :
                       /\ lock = w
                       /\ pc[w] = "inserting"
                       /\ filename[w] = p
                       /\ CREATED_FILES' = CREATED_FILES \cup {p}
             /\ (p \in CREATED_FILES /\ p \notin CREATED_FILES'
                    /\ mainPc # "draining") =>
                   \E w \in Threads :
                       /\ lock = w
                       /\ pc[w] = "untracking"
                       /\ filename[w] = p
                       /\ CREATED_FILES' = CREATED_FILES \ {p}]_vars

\* one worker is inside its insert, with another worker's path in the set,
\* while that other worker waits for the lock to remove it
C18_Witness ==
    \E w, v \in Threads :
        /\ w # v
        /\ pc[w] = "inserting"
        /\ lock = w
        /\ pc[v] = "untrack"
        /\ filename[v] \in CREATED_FILES

====
